---- MODULE Spec2Model ----
(***************************************************************************)
(* A model of MCEq/density_profiles.py: the CascadeAtmosphere facade       *)
(* (set_theta with its pickled spline cache), CorsikaAtmosphere            *)
(* (init_parameters and height2depth) and the cache file helpers           *)
(* _load_cache and _dump_cache.                                            *)
(*                                                                         *)
(* Units.  Zenith angles are integers counting half degrees, so 1.0 degree *)
(* is 2.  Heights are integers in cm.  Depths are integers in 0.01 g/cm^2, *)
(* scale constants catm in cm (layers 0..3) and in 1000 cm (layer 4).      *)
(* Python's None is the empty tuple, a set value x is <<x>>.               *)
(***************************************************************************)
EXTENDS Integers, Sequences, FiniteSets, TLC

VARIABLES
    obj,            \* TRUE once an atmosphere object exists
    cls,            \* self.__class__.__name__
    msis,           \* what self.msis is set to: None or <<location, season>>
    location,       \* self.location
    season,         \* self.season
    atm_param,      \* self._atm_param: the name of the parameter table held
    theta_deg,      \* self.theta_deg: None or <<angle>>
    thrad,          \* self.thrad: None or <<radians>>
    X_surf,         \* self.X_surf: None or the surface depth of a profile
    s_X2rho,        \* self.s_X2rho: None or the spline of a profile
    use_atm_cache,  \* config['use_atm_cache']
    store,          \* the pickled cache file
    hashOrder,      \* the (fixed, unknown) iteration order of dict keys
    last,           \* what the last call did (observation only): the
                    \* operation, its arguments, the branch taken, what it
                    \* raised, the builder and dump calls it made, whether it
                    \* loaded the cache file, whether it repeats the
                    \* call before it, whether no set_theta was made
                    \* since the last successful init_parameters (fresh),
                    \* and whether a set_theta is the first one after it
                    \* and asks for the angle that was last active before
                    \* it, whose thrad is still held, or for another (first)
    hq,             \* the last two height2depth queries since the last
                    \* init_parameters (observation only)
    dq              \* the last density query since the last
                    \* init_parameters: its boundaries, its height, the
                    \* layer selected and the density returned
                    \* (observation only)

vars == <<obj, cls, msis, location, season, atm_param, theta_deg, thrad, X_surf, s_X2rho,
          use_atm_cache, store, hashOrder, last, hq, dq>>

None == <<>>

ClassName == "CorsikaAtmosphere"

MsisClassName == "MSIS00Atmosphere"

NoSeason == "None"

(***************************************************************************)
(* Bounds of the model.                                                    *)
(***************************************************************************)
MaxAngle == 2

HeightStep == 10000

MaxBoundary == 5

Angles == 0..MaxAngle

(***************************************************************************)
(* The parameter tables of init_parameters, in the units above.            *)
(***************************************************************************)
Param_USStd ==
    [aatm |-> <<-18656, -9492, 61, 0, 1>>,
     batm |-> <<122266, 114491, 130559, 54018, 100>>,
     catm |-> <<994186, 878154, 636143, 772170, 1000000>>,
     thickl |-> <<103610, 63110, 27170, 304, 0>>,
     hlay |-> <<0, 400000, 1000000, 4000000, 10000000>>]

Param_BK_USStd ==
    [aatm |-> <<-14980, -5793, 64, 0, 1>>,
     batm |-> <<118361, 114304, 132297, 65569, 100>>,
     catm |-> <<954248, 800005, 629569, 737522, 1000000>>,
     thickl |-> <<103380, 41856, 21698, 434, 0>>,
     hlay |-> <<0, 700000, 1140000, 3700000, 10000000>>]

Param_Karlsruhe ==
    [aatm |-> <<-11813, -15426, 42, 0, 1>>,
     batm |-> <<117399, 120576, 138678, 55589, 100>>,
     catm |-> <<919546, 963268, 614315, 739060, 1000000>>,
     thickl |-> <<105586, 64176, 27272, 248, 0>>,
     hlay |-> <<0, 400000, 1000000, 4000000, 10000000>>]

Param_SouthPole_December ==
    [aatm |-> <<-12860, -3955, 113, 0, 0>>,
     batm |-> <<113999, 107382, 105296, 49250, 100>>,
     catm |-> <<861913, 744955, 675928, 829627, 5858701>>,
     thickl |-> <<101140, 58813, 24096, 396, 0>>,
     hlay |-> <<0, 400000, 1000000, 4000000, 10000000>>]

Param_SouthPole_June ==
    [aatm |-> <<-16333, -6537, 40, 0, 0>>,
     batm |-> <<118370, 110806, 142402, 20760, 100>>,
     catm |-> <<875221, 753213, 545846, 793043, 5978791>>,
     thickl |-> <<102037, 58614, 22837, 134, 0>>,
     hlay |-> <<0, 400000, 1000000, 4000000, 10000000>>]

\* _aatm[1] is written -7930635 in the source (not -79.30635).
Param_PL_SouthPole_January ==
    [aatm |-> <<-11314, -793063500, -5439, 0, 0>>,
     batm |-> <<113310, 110120, 108500, 109800, 100>>,
     catm |-> <<861730, 826340, 790950, 682800, 2679816>>,
     thickl |-> <<101997, 71807, 49866, 34022, 0>>,
     hlay |-> <<0, 267000, 533000, 800000, 10000000>>]

Param_PL_SouthPole_August ==
    [aatm |-> <<-5903, -2158, -715, 0, 0>>,
     batm |-> <<107900, 107190, 118200, 164710, 100>>,
     catm |-> <<764170, 699910, 635650, 551010, 59329575>>,
     thickl |-> <<101995, 39174, 13802, 4369, 0>>,
     hlay |-> <<0, 667000, 1333000, 2000000, 10000000>>]

ParamNames ==
    {"USStd", "BK_USStd", "Karlsruhe", "SouthPole_December", "SouthPole_June",
     "PL_SouthPole_January", "PL_SouthPole_August"}

\* The arrays self._atm_param unpacks to, for the table named p.
Param(p) ==
    CASE p = "USStd" -> Param_USStd
      [] p = "BK_USStd" -> Param_BK_USStd
      [] p = "Karlsruhe" -> Param_Karlsruhe
      [] p = "SouthPole_December" -> Param_SouthPole_December
      [] p = "SouthPole_June" -> Param_SouthPole_June
      [] p = "PL_SouthPole_January" -> Param_PL_SouthPole_January
      [] p = "PL_SouthPole_August" -> Param_PL_SouthPole_August

\* Python index i (0..4) into a row of the parameter array.
At(row, i) == row[i + 1]

(***************************************************************************)
(* init_parameters: the if/elif chain that selects a table or raises.      *)
(* A raise of the string concatenation with season = None is a TypeError.  *)
(***************************************************************************)
SeasonError(sea) == IF sea = NoSeason THEN "TypeError" ELSE "Exception"

\* the chain with the season branches ending in a default instead of a raise
SelectParametersNoSeasonCheck(loc, sea) ==
    IF loc \in {"USStd", "BK_USStd", "Karlsruhe"}
      THEN [raised |-> "no", param |-> loc]
    ELSE IF loc = "SouthPole"
      THEN IF sea = "June"
             THEN [raised |-> "no", param |-> "SouthPole_June"]
             ELSE [raised |-> "no", param |-> "SouthPole_December"]
    ELSE IF loc = "PL_SouthPole"
      THEN IF sea = "August"
             THEN [raised |-> "no", param |-> "PL_SouthPole_August"]
             ELSE [raised |-> "no", param |-> "PL_SouthPole_January"]
    ELSE [raised |-> "Exception", param |-> "None"]

SelectParameters(loc, sea) ==
    IF loc = "USStd" THEN [raised |-> "no", param |-> "USStd"]
    ELSE IF loc = "BK_USStd" THEN [raised |-> "no", param |-> "BK_USStd"]
    ELSE IF loc = "Karlsruhe" THEN [raised |-> "no", param |-> "Karlsruhe"]
    ELSE IF loc = "SouthPole"
      THEN IF sea = "December"
             THEN [raised |-> "no", param |-> "SouthPole_December"]
           ELSE IF sea = "June"
             THEN [raised |-> "no", param |-> "SouthPole_June"]
           ELSE [raised |-> SeasonError(sea), param |-> "None"]
    ELSE IF loc = "PL_SouthPole"
      THEN IF sea = "January"
             THEN [raised |-> "no", param |-> "PL_SouthPole_January"]
           ELSE IF sea = "August"
             THEN [raised |-> "no", param |-> "PL_SouthPole_August"]
           ELSE [raised |-> SeasonError(sea), param |-> "None"]
    ELSE [raised |-> "Exception", param |-> "None"]

(***************************************************************************)
(* Fixed-point arithmetic for np.exp.  Numbers in [0, 1] are integers      *)
(* scaled by 10^8; products are formed from 10^4 limbs so that every       *)
(* intermediate value fits a 32-bit integer.                               *)
(***************************************************************************)
Limb == 10000

\* a * b / 10^8, for 0 <= a, b <= 10^8.
MulScaled(a, b) ==
    LET a1 == a \div Limb
        a0 == a % Limb
        b1 == b \div Limb
        b0 == b % Limb
    IN  a1 * b1 + ((a1 * b0 + a0 * b1) \div Limb) + ((a0 * b0) \div (Limb * Limb))

\* 10^8 * exp(-2^k * 10^-6), k = 0..24; for larger k it is below 10^-8.
ExpBit ==
    <<99999900, 99999800, 99999600, 99999200, 99998400, 99996800, 99993600,
      99987201, 99974403, 99948813, 99897652, 99795410, 99591238, 99184146,
      98374949, 96776305, 93656533, 87715462, 76940022, 59197670, 35043642,
      12280568, 1508124, 22744, 5>>

RECURSIVE ExpNegFrom(_, _, _)
ExpNegFrom(x, k, acc) ==
    IF x = 0 THEN acc
    ELSE IF k > Len(ExpBit) THEN 0
    ELSE ExpNegFrom(x \div 2, k + 1,
                    IF x % 2 = 1 THEN MulScaled(acc, ExpBit[k]) ELSE acc)

\* 10^8 * exp(-x * 10^-6) for an integer x >= 0 (x in millionths).
ExpNeg(x) == ExpNegFrom(x, 1, Limb * Limb)

\* n decimal digits of r / c after the point, for 0 <= r < c.
RECURSIVE FracDigits(_, _, _)
FracDigits(r, c, n) ==
    IF n = 0 THEN 0
    ELSE LET d == (r * 10) \div c
             rest == FracDigits((r * 10) % c, c, n - 1)
             RECURSIVE Pow10(_)
             Pow10(m) == IF m = 0 THEN 1 ELSE 10 * Pow10(m - 1)
         IN  d * Pow10(n - 1) + rest

\* height / c in millionths, for height >= 0.
Ratio(height, c) == (height \div c) * 1000000 + FracDigits(height % c, c, 6)

(***************************************************************************)
(* CorsikaAtmosphere.height2depth.                                         *)
(***************************************************************************)
\* _aatm[l] + _batm[l] * np.exp(-height / _catm[l])
LayerDepth(P, l, height) ==
    At(P.aatm, l) + MulScaled(At(P.batm, l), ExpNeg(Ratio(height, At(P.catm, l))))

\* _aatm[4] - height / _catm[4]   (catm[4] is held in units of 1000 cm)
TopDepth(P, height) == At(P.aatm, 4) - (height \div (At(P.catm, 4) * 10))

\* The layer the if/elif chain of lines 450-459 takes for a height.
height2depth_layer(hlay, height) ==
    IF height <= At(hlay, 1) THEN 0
    ELSE IF height <= At(hlay, 2) THEN 1
    ELSE IF height <= At(hlay, 3) THEN 2
    ELSE IF height <= At(hlay, 4) THEN 3
    ELSE 4

height2depth(p, h_cm) ==
    LET P == Param(p)
        height == h_cm
        l == height2depth_layer(P.hlay, height)
    IN  IF l < 4 THEN LayerDepth(P, l, height) ELSE TopDepth(P, height)

(***************************************************************************)
(* corsika_get_density_jit.  Densities are integers in 10^-9 g/cm^3.       *)
(***************************************************************************)
\* A variant of the loop's test that also takes a height on the boundary.
ExceedsOrTouches(h_cm, boundary) == ~(h_cm < boundary)

\* not (h_cm <= hl[i]), line 566
Exceeds(h_cm, boundary) == ~(h_cm <= boundary)

\* for i in xrange(hl.size): if not (h_cm <= hl[i]): layer = i
RECURSIVE LayerLoop(_, _, _, _)
LayerLoop(hl, h_cm, i, layer) ==
    IF i = Len(hl) THEN layer
    ELSE LayerLoop(hl, h_cm, i + 1, IF Exceeds(h_cm, At(hl, i)) THEN i ELSE layer)

corsika_layer(hl, h_cm) == LayerLoop(hl, h_cm, 0, 0)

\* 10^8 * np.exp(-h_cm / c): for a negative height the reciprocal of
\* exp(h_cm / c), to four digits.
ExpOf(h_cm, c) ==
    IF h_cm >= 0 THEN ExpNeg(Ratio(h_cm, c))
    ELSE ((Limb * Limb) \div (ExpNeg(Ratio(-h_cm, c)) \div Limb)) * Limb

\* param is the record of the rows b = param[1], c = param[2], hl = param[4].
corsika_get_density_jit(h_cm, param) ==
    LET b == param.batm
        c == param.catm
        hl == param.hlay
        layer == corsika_layer(hl, h_cm)
    IN  IF layer = 4
          THEN (At(b, 4) * 10000) \div At(c, 4)
          ELSE (MulScaled(At(b, layer), ExpOf(h_cm, At(c, layer))) * 10000)
                  \div (At(c, layer) \div 1000)


(***************************************************************************)
(* External collaborators that are not in this file.                       *)
(***************************************************************************)
\* geometry._theta_rad: degrees to radians; here half degrees to 10^-4 rad.
theta_rad(t) == (t * 31416) \div 360

Abs(x) == IF x < 0 THEN -x ELSE x

Min(S) == CHOOSE x \in S : \A y \in S : x <= y

Max(S) == CHOOSE x \in S : \A y \in S : x >= y

\* MCEq.misc._get_closest(value, in_list)[1]: the element of in_list nearest
\* to value; np.argmin returns the first minimum in the order of in_list,
\* which is the dict's key order (order = "lo": ascending, "hi": descending).
get_closest(value, in_list, order) ==
    LET nearest == {a \in in_list : \A b \in in_list : Abs(a - value) <= Abs(b - value)}
    IN  IF order = "lo" THEN Min(nearest) ELSE Max(nearest)

(***************************************************************************)
(* The cache file.  store.status is "missing" (open raises IOError),       *)
(* "unreadable" (open raises IOError), "corrupt" (pickle.load raises an    *)
(* error that is not an IOError) or "ok" (store.data is the pickled dict). *)
(* A dict is a function on its keys.  A cache key is                       *)
(* <<class name, location, season>>; an entry is [shape, items] with shape *)
(* "dict" (items: angle -> value) or "other" (anything but a dict); a      *)
(* value is the pair <<X_surf, s_X2rho>> or something that does not unpack *)
(* to a pair.                                                              *)
(***************************************************************************)
EmptyDict == << >>

Junk == <<"junk">>

DictEntry(items) == [shape |-> "dict", items |-> items]

OtherEntry == [shape |-> "other", items |-> EmptyDict]

File(status, data) == [status |-> status, data |-> data]

\* d[k] = v on a dict d
DictSet(d, k, v) == [x \in (DOMAIN d) \cup {k} |-> IF x = k THEN v ELSE d[x]]

\* _load_cache: only IOError is caught
load_cache(f) ==
    IF f.status \in {"missing", "unreadable"} THEN [raised |-> "no", cache |-> EmptyDict]
    ELSE IF f.status = "corrupt" THEN [raised |-> "UnpicklingError", cache |-> EmptyDict]
    ELSE [raised |-> "no", cache |-> f.data]

\* _dump_cache: d is what this attempt to write does ("ok", or "fail": open
\* raises IOError and the file is left as it was)
dump_cache(f, cache, d) ==
    IF d = "ok" THEN [raised |-> "no", file |-> File("ok", cache)]
    ELSE [raised |-> "IOError", file |-> f]

(***************************************************************************)
(* CascadeAtmosphere.calculate_density_spline.  The profile is a function  *)
(* of the parameter table (through get_density) and of self.thrad.         *)
(* bfail: the integration or the spline fit raises.                        *)
(***************************************************************************)
Profile(p, rad) == [X_surf |-> <<"X_surf", p, rad>>, s_X2rho |-> <<"s_X2rho", p, rad>>]

calculate_density_spline(S, p, bfail) ==
    IF S.theta_deg = None THEN [S |-> S, raised |-> "Exception"]
    ELSE IF bfail THEN [S |-> S, raised |-> "BuildError"]
    ELSE LET pr == Profile(p, S.thrad[1])
         IN  [S |-> [S EXCEPT !.X_surf = pr.X_surf, !.s_X2rho = pr.s_X2rho],
              raised |-> "no"]

(***************************************************************************)
(* CascadeAtmosphere.set_theta.  S is the object's (thrad, theta_deg,      *)
(* X_surf, s_X2rho); every operator returns the new S, the file, what was  *)
(* raised, and the builder and dump calls made.                            *)
(***************************************************************************)
Active == [thrad |-> thrad, theta_deg |-> theta_deg, X_surf |-> X_surf,
           s_X2rho |-> s_X2rho]

Key == <<cls, location, season>>

\* calculate_and_store(key, cache), lines 186-191
calculate_and_store(key, cache, t, S, p, f, bfail, ds) ==
    LET S1 == [S EXCEPT !.thrad = <<theta_rad(t)>>, !.theta_deg = <<t>>]
        b == calculate_density_spline(S1, p, bfail)
    IN  IF b.raised # "no"
          THEN [S |-> b.S, cache |-> cache, file |-> f, raised |-> b.raised,
                builds |-> <<t>>, dumps |-> << >>]
          ELSE LET items2 == DictSet(cache[key].items, t, <<b.S.X_surf, b.S.s_X2rho>>)
                   cache2 == DictSet(cache, key, DictEntry(items2))
                   w == dump_cache(f, cache2, Head(ds))
               IN  [S |-> b.S, cache |-> cache2, file |-> w.file, raised |-> w.raised,
                    builds |-> <<t>>, dumps |-> <<Head(ds)>>]

\* the test of line 193 dropped: every call recomputes
UsePreviousNever(S, t) == FALSE

\* line 193
UsePrevious(S, t) == S.theta_deg = <<t>>

Tol == 2

\* the comparison of line 204 written <= 1.
WithinToleranceInclusive(closest, t) == Abs(closest - t) <= Tol

\* the comparison of line 204 written as an exact match
WithinToleranceExact(closest, t) == closest = t

\* line 204: abs(closest - theta_deg) < 1.
WithinTolerance(closest, t) == Abs(closest - t) < Tol

\* lines 205-206 written with the requested angle
ServedAngleRequested(closest, t) == t

\* lines 205-206: the angle a cache hit makes active is the stored one
ServedAngle(closest, t) == closest

\* lines 203-209, the body of the try: the entry is read, and the nearest
\* stored angle is served or a fresh profile is built.
try_lookup(key, cache, t, S, p, f, order, bfail, ds) ==
    LET entry == cache[key]
    IN  IF entry.shape # "dict"
          THEN [S |-> S, cache |-> cache, file |-> f, raised |-> "AttributeError",
                builds |-> << >>, dumps |-> << >>, path |-> "lookup"]
        ELSE IF DOMAIN entry.items = {}
          THEN [S |-> S, cache |-> cache, file |-> f, raised |-> "ValueError",
                builds |-> << >>, dumps |-> << >>, path |-> "lookup"]
        ELSE LET closest == get_closest(t, DOMAIN entry.items, order)
             IN  IF WithinTolerance(closest, t)
                   THEN LET served == ServedAngle(closest, t)
                            S1 == [S EXCEPT !.thrad = <<theta_rad(served)>>,
                                            !.theta_deg = <<served>>]
                            v == entry.items[closest]
                        IN  IF Len(v) # 2
                              THEN [S |-> S1, cache |-> cache, file |-> f,
                                    raised |-> "ValueError", builds |-> << >>,
                                    dumps |-> << >>, path |-> "snap"]
                              ELSE [S |-> [S1 EXCEPT !.X_surf = v[1], !.s_X2rho = v[2]],
                                    cache |-> cache, file |-> f, raised |-> "no",
                                    builds |-> << >>, dumps |-> << >>, path |-> "snap"]
                   ELSE [path |-> "miss"] @@
                        calculate_and_store(key, cache, t, S, p, f, bfail, ds)

\* lines 210-212: the bare except
except_rebuild(key, r, t, p, bfail, ds) ==
    LET cache1 == DictSet(r.cache, key, DictEntry(EmptyDict))
        r2 == calculate_and_store(key, cache1, t, r.S, p, r.file, bfail,
                                  SubSeq(ds, Len(r.dumps) + 1, Len(ds)))
    IN  [S |-> r2.S, cache |-> r2.cache, file |-> r2.file, raised |-> r2.raised,
         builds |-> r.builds \o r2.builds, dumps |-> r.dumps \o r2.dumps,
         path |-> "except"]

\* lines 193-221
set_theta(S, t, p, key, cfg, f, order, bfail, ds) ==
    IF UsePrevious(S, t)
      THEN [S |-> S, file |-> f, raised |-> "no", builds |-> << >>, dumps |-> << >>,
            path |-> "previous", loaded |-> FALSE]
    ELSE IF cfg
      THEN LET ld == load_cache(f)
               cache == ld.cache
           IN  IF ld.raised # "no"
                 THEN [S |-> S, file |-> f, raised |-> ld.raised, builds |-> << >>,
                       dumps |-> << >>, path |-> "load", loaded |-> TRUE]
               ELSE IF cache # EmptyDict /\ key \in DOMAIN cache
                 THEN LET r == try_lookup(key, cache, t, S, p, f, order, bfail, ds)
                          x == IF r.raised = "no" THEN r
                               ELSE except_rebuild(key, r, t, p, bfail, ds)
                      IN  [S |-> x.S, file |-> x.file, raised |-> x.raised,
                           builds |-> x.builds, dumps |-> x.dumps, path |-> x.path,
                           loaded |-> TRUE]
               ELSE LET cache1 == DictSet(cache, key, DictEntry(EmptyDict))
                        r == calculate_and_store(key, cache1, t, S, p, f, bfail, ds)
                    IN  [S |-> r.S, file |-> r.file, raised |-> r.raised,
                         builds |-> r.builds, dumps |-> r.dumps, path |-> "nokey",
                         loaded |-> TRUE]
    ELSE LET S1 == [S EXCEPT !.thrad = <<theta_rad(t)>>, !.theta_deg = <<t>>]
             b == calculate_density_spline(S1, p, bfail)
         IN  [S |-> b.S, file |-> f, raised |-> b.raised, builds |-> <<t>>,
              dumps |-> << >>, path |-> "nocache", loaded |-> FALSE]


(***************************************************************************)
(* The calls.                                                              *)
(***************************************************************************)
NoCall == [op |-> "none", arg |-> << >>, path |-> "none", raised |-> "no",
           builds |-> << >>, dumps |-> << >>, loaded |-> FALSE, rep |-> FALSE,
           fresh |-> FALSE, first |-> "no"]

Call(op, arg, path, raised) ==
    [op |-> op, arg |-> arg, path |-> path, raised |-> raised,
     builds |-> << >>, dumps |-> << >>, loaded |-> FALSE, rep |-> FALSE,
     fresh |-> FALSE, first |-> "no"]

\* The record of an init_parameters call: after a successful one the object
\* is fresh, a failed one leaves it as fresh as it was.
InitCall(op, arg, raised) ==
    [Call(op, arg, "init", raised) EXCEPT
        !.fresh = IF raised = "no" THEN TRUE ELSE last.fresh]

\* A variant that leaves the active angle as it was.
clear_theta_keep(old) == old

\* self.theta_deg = None, the last statement of both init_parameters
\* (lines 410 and 620): "clear cached theta value to force spline
\* recalculation".
clear_theta(old) == None

\* CorsikaAtmosphere(location, season): __init__ runs init_parameters on a
\* fresh object; when it raises there is no object.
Construct(loc, sea) ==
    /\ ~obj
    /\ LET r == SelectParameters(loc, sea)
       IN  /\ last' = InitCall("construct", <<loc, sea>>, r.raised)
           /\ IF r.raised = "no"
                THEN /\ obj' = TRUE
                     /\ cls' = ClassName
                     /\ atm_param' = r.param
                     /\ location' = loc
                     /\ season' = sea
                ELSE UNCHANGED <<obj, cls, atm_param, location, season>>
    /\ UNCHANGED <<msis, theta_deg, thrad, X_surf, s_X2rho, use_atm_cache, store,
                   hashOrder, hq, dq>>

\* init_parameters(location, season) on the object: X_surf is cleared first
\* (line 331), the rest is assigned only when no branch raised (406-410).
InitParameters(loc, sea) ==
    /\ obj
    /\ cls = ClassName
    /\ LET r == SelectParameters(loc, sea)
       IN  /\ last' = InitCall("init_parameters", <<loc, sea>>, r.raised)
           /\ X_surf' = None
           /\ IF r.raised = "no"
                THEN /\ atm_param' = r.param
                     /\ location' = loc
                     /\ season' = sea
                     /\ theta_deg' = clear_theta(theta_deg)
                ELSE UNCHANGED <<atm_param, location, season, theta_deg>>
    /\ hq' = << >>
    /\ dq' = None
    /\ UNCHANGED <<obj, cls, msis, thrad, s_X2rho, use_atm_cache, store, hashOrder>>

\* The locations and seasons the NRLMSISE-00 wrapper supports, by the
\* docstring of MSIS00Atmosphere.init_parameters (lines 612-613).
MsisLocations == {"SouthPole", "Karlsruhe"}

MsisSeasons ==
    {"January", "February", "March", "April", "May", "June", "July",
     "August", "September", "October", "November", "December"}

\* self.msis.set_location(location); self.msis.set_season(season): the
\* first call that raises ends the sequence, what was set before stays set.
msis_set(m, loc, sea) ==
    IF loc \notin MsisLocations
      THEN [raised |-> "Exception", msis |-> m]
      ELSE IF sea \notin MsisSeasons
             THEN [raised |-> "Exception", msis |-> <<loc, m[2]>>]
             ELSE [raised |-> "no", msis |-> <<loc, sea>>]

\* The density model get_density evaluates: the parameter table of a
\* CorsikaAtmosphere, the wrapper's location and season of a
\* MSIS00Atmosphere.
MsisModel(m) == "MSIS/" \o m[1] \o "/" \o m[2]

DensityModel == IF cls = MsisClassName THEN MsisModel(msis) ELSE atm_param

\* MSIS00Atmosphere(location, season): a new wrapper, then init_parameters;
\* when it raises there is no object.
ConstructMsis(loc, sea) ==
    /\ ~obj
    /\ LET r == msis_set(<<"unset", "unset">>, loc, sea)
       IN  /\ last' = InitCall("construct", <<loc, sea>>, r.raised)
           /\ IF r.raised = "no"
                THEN /\ obj' = TRUE
                     /\ cls' = MsisClassName
                     /\ msis' = r.msis
                     /\ location' = loc
                     /\ season' = sea
                ELSE UNCHANGED <<obj, cls, msis, location, season>>
    /\ UNCHANGED <<atm_param, theta_deg, thrad, X_surf, s_X2rho, use_atm_cache,
                   store, hashOrder, hq, dq>>

\* MSIS00Atmosphere.init_parameters(location, season), lines 615-620:
\* location, season and theta_deg are assigned only when the wrapper
\* accepted both; X_surf is not touched.
InitParametersMsis(loc, sea) ==
    /\ obj
    /\ cls = MsisClassName
    /\ LET r == msis_set(msis, loc, sea)
       IN  /\ last' = InitCall("init_parameters", <<loc, sea>>, r.raised)
           /\ msis' = r.msis
           /\ IF r.raised = "no"
                THEN /\ location' = loc
                     /\ season' = sea
                     /\ theta_deg' = clear_theta(theta_deg)
                ELSE UNCHANGED <<location, season, theta_deg>>
    /\ hq' = << >>
    /\ dq' = None
    /\ UNCHANGED <<obj, cls, atm_param, thrad, X_surf, s_X2rho, use_atm_cache,
                   store, hashOrder>>

\* set_theta(t); bfail: whether the builder raises; ds: what the first and
\* the second call of _dump_cache made by this set_theta do.
SetTheta(t, bfail, ds) ==
    /\ obj
    /\ LET r == set_theta(Active, t, DensityModel, Key, use_atm_cache, store,
                          hashOrder, bfail, ds)
       IN  /\ thrad' = r.S.thrad
           /\ theta_deg' = r.S.theta_deg
           /\ X_surf' = r.S.X_surf
           /\ s_X2rho' = r.S.s_X2rho
           /\ store' = r.file
           /\ last' = [op |-> "set_theta", arg |-> <<t>>, path |-> r.path,
                       raised |-> r.raised, builds |-> r.builds,
                       dumps |-> r.dumps, loaded |-> r.loaded,
                       rep |-> (last.op = "set_theta" /\ last.arg = <<t>>),
                       fresh |-> FALSE,
                       first |-> IF ~last.fresh THEN "no"
                                 ELSE IF thrad = <<theta_rad(t)>> THEN "same"
                                 ELSE "other"]
    /\ UNCHANGED <<obj, cls, msis, location, season, atm_param, use_atm_cache,
                   hashOrder, hq, dq>>

\* The heights height2depth is queried at: every layer boundary of the
\* table and a point HeightStep above it.
HeightSamples(p) ==
    LET hlay == Param(p).hlay
    IN  {hlay[i] : i \in 1..5} \cup {hlay[i] + HeightStep : i \in 1..5}

AllHeights == UNION {HeightSamples(p) : p \in ParamNames}

\* x = self.height2depth(h); hq keeps the last two queries.
Height2Depth(h) ==
    /\ obj
    /\ h \in HeightSamples(atm_param)
    /\ LET q == [p |-> atm_param, h |-> h, x |-> height2depth(atm_param, h)]
       IN  hq' = IF hq = << >> THEN <<q>> ELSE <<hq[Len(hq)], q>>
    /\ last' = Call("height2depth", << >>, "query", "no")
    /\ cls = ClassName
    /\ UNCHANGED <<obj, cls, msis, location, season, atm_param, theta_deg, thrad,
                   X_surf, s_X2rho, use_atm_cache, store, hashOrder, dq>>

\* The heights a density is asked at: every layer boundary of the table
\* and the points HeightStep below and above it (the first is negative).
DensityHeights(hl) ==
    UNION {{hl[i] - HeightStep, hl[i], hl[i] + HeightStep} : i \in 1..5}

DensityQuery(param, h) ==
    [hl |-> param.hlay, h |-> h, layer |-> corsika_layer(param.hlay, h),
     rho |-> corsika_get_density_jit(h, param)]

\* rho = self.get_density(h): corsika_get_density_jit(h_cm, self._atm_param)
GetDensity(h) ==
    /\ obj
    /\ cls = ClassName
    /\ h \in DensityHeights(Param(atm_param).hlay)
    /\ dq' = DensityQuery(Param(atm_param), h)
    /\ last' = Call("get_density", << >>, "query", "no")
    /\ UNCHANGED <<obj, cls, msis, location, season, atm_param, theta_deg, thrad,
                   X_surf, s_X2rho, use_atm_cache, store, hashOrder, hq>>

\* corsika_get_density_jit(h, param) called as a module function, with the
\* rows b and c of the US standard atmosphere and the boundaries hl.
CorsikaGetDensityJit(hl, h) ==
    /\ dq' = DensityQuery([Param("USStd") EXCEPT !.hlay = hl], h)
    /\ last' = Call("corsika_get_density_jit", << >>, "query", "no")
    /\ UNCHANGED <<obj, cls, msis, location, season, atm_param, theta_deg, thrad,
                   X_surf, s_X2rho, use_atm_cache, store, hashOrder, hq>>

(***************************************************************************)
(* Inputs and initial states.                                              *)
(***************************************************************************)
Locations == {"USStd", "BK_USStd", "Karlsruhe", "SouthPole", "PL_SouthPole", "Atlantis"}

Seasons == {NoSeason, "December", "June", "January", "August", "March"}

\* Boundary rows other than the tables': every strictly increasing row of
\* five heights between 0 and MaxBoundary, and the heights asked of them.
BoundaryRows ==
    {r \in [1..5 -> 0..MaxBoundary] : \A i \in 1..4 : r[i] < r[i + 1]}

RowHeights == (0 - 1)..(MaxBoundary + 1)

TableHeights == UNION {DensityHeights(Param(p).hlay) : p \in ParamNames}

\* One (location, season) for every parameter table.
LayerArgs ==
    {<<"USStd", NoSeason>>, <<"BK_USStd", NoSeason>>, <<"Karlsruhe", NoSeason>>,
     <<"SouthPole", "December">>, <<"SouthPole", "June">>,
     <<"PL_SouthPole", "January">>, <<"PL_SouthPole", "August">>}

\* The (location, season) arguments tried where the cache is modelled.
CacheArgs ==
    {<<"USStd", NoSeason>>, <<"SouthPole", "June">>, <<"SouthPole", NoSeason>>,
     <<"Atlantis", NoSeason>>}

\* What the environment does to one set_theta: the builder raises (no dump
\* is reached), or it does not and the dumps succeed, fail once, or fail twice.
Environments ==
    {<<TRUE, <<"ok", "ok">> >>, <<FALSE, <<"ok", "ok">> >>,
     <<FALSE, <<"fail", "ok">> >>, <<FALSE, <<"fail", "fail">> >>}

K0 == <<ClassName, "USStd", NoSeason>>

StoredProfile(p, a) ==
    LET pr == Profile(p, theta_rad(a)) IN <<pr.X_surf, pr.s_X2rho>>

\* Cache files a run may find: none, unreadable ones, an empty dict, and
\* dicts whose entry for K0 is well formed, is not a dict, is an empty
\* dict, or holds a value that is no pair.
InitStores ==
    {File("missing", EmptyDict), File("unreadable", EmptyDict),
     File("corrupt", EmptyDict), File("ok", EmptyDict),
     File("ok", (K0 :> OtherEntry)),
     File("ok", (K0 :> DictEntry(EmptyDict))),
     File("ok", (K0 :> DictEntry((0 :> StoredProfile("USStd", 0))))),
     File("ok", (K0 :> DictEntry((0 :> StoredProfile("USStd", 0)) @@ (1 :> Junk))))}

EmptyStores == {File("missing", EmptyDict), File("ok", EmptyDict)}

\* The (location, season) arguments tried where objects of both classes
\* are modelled: on a CorsikaAtmosphere, and on a MSIS00Atmosphere.
ClassArgs == {<<"USStd", NoSeason>>, <<"SouthPole", "June">>}

MsisArgs ==
    {<<"SouthPole", "June">>, <<"Karlsruhe", "January">>, <<"Atlantis", "June">>}

KM == <<MsisClassName, "SouthPole", "June">>

\* Cache files for runs with objects of both classes: none, a corrupted
\* one, and one that holds for K0 and for KM a profile at angle 0 and a
\* value that is no pair at angle 1.
ClassStores ==
    {File("missing", EmptyDict), File("corrupt", EmptyDict),
     File("ok", (K0 :> DictEntry((0 :> StoredProfile("USStd", 0)) @@ (1 :> Junk)))
                @@ (KM :> DictEntry((0 :> StoredProfile(MsisModel(<<"SouthPole", "June">>), 0))
                                    @@ (1 :> Junk))))}

InitObject ==
    /\ obj = FALSE
    /\ cls = "unset"
    /\ msis = None
    /\ location = "unset"
    /\ season = "unset"
    /\ atm_param = "None"
    /\ theta_deg = None
    /\ thrad = None
    /\ X_surf = None
    /\ s_X2rho = None
    /\ last = NoCall
    /\ hq = << >>
    /\ dq = None

Init ==
    /\ InitObject
    /\ use_atm_cache \in BOOLEAN
    /\ hashOrder \in {"lo", "hi"}
    /\ store \in InitStores

InitEmpty ==
    /\ InitObject
    /\ use_atm_cache \in BOOLEAN
    /\ hashOrder \in {"lo", "hi"}
    /\ store \in EmptyStores

InitAtm ==
    /\ InitObject
    /\ use_atm_cache = FALSE
    /\ hashOrder = "lo"
    /\ store = File("missing", EmptyDict)

InitClasses ==
    /\ InitObject
    /\ use_atm_cache \in BOOLEAN
    /\ hashOrder = "lo"
    /\ store \in ClassStores

Next ==
    \/ \E a \in CacheArgs : Construct(a[1], a[2])
    \/ \E a \in CacheArgs : InitParameters(a[1], a[2])
    \/ \E t \in Angles, e \in Environments : SetTheta(t, e[1], e[2])

NextAtm ==
    \/ \E loc \in Locations, sea \in Seasons : Construct(loc, sea)
    \/ \E loc \in Locations, sea \in Seasons : InitParameters(loc, sea)
    \/ \E h \in AllHeights : Height2Depth(h)

NextClasses ==
    \/ \E a \in ClassArgs : Construct(a[1], a[2])
    \/ \E a \in ClassArgs : InitParameters(a[1], a[2])
    \/ \E a \in MsisArgs : ConstructMsis(a[1], a[2])
    \/ \E a \in MsisArgs : InitParametersMsis(a[1], a[2])
    \/ \E t \in Angles, e \in Environments : SetTheta(t, e[1], e[2])

NextLayer ==
    \/ \E a \in LayerArgs : Construct(a[1], a[2])
    \/ \E a \in LayerArgs : InitParameters(a[1], a[2])
    \/ \E h \in TableHeights : GetDensity(h)
    \/ \E hl \in BoundaryRows, h \in RowHeights : CorsikaGetDensityJit(hl, h)

Spec == Init /\ [][Next]_vars

SpecLayer == InitAtm /\ [][NextLayer]_vars

SpecClasses == InitClasses /\ [][NextClasses]_vars

SpecEmpty == InitEmpty /\ [][Next]_vars

SpecAtm == InitAtm /\ [][NextAtm]_vars


(***************************************************************************)
(* C9.  Construction and the table of known configurations.                *)
(***************************************************************************)
KnownConfiguration(loc, sea) ==
    \/ loc \in {"USStd", "BK_USStd", "Karlsruhe"}
    \/ loc = "SouthPole" /\ sea \in {"December", "June"}
    \/ loc = "PL_SouthPole" /\ sea \in {"January", "August"}

\* C9: CorsikaAtmosphere(location, season) succeeds exactly for the known
\* configurations; for any other location, and any other season (None
\* included) of SouthPole and PL_SouthPole, it raises and leaves no object
\* and no parameter set.
C9_ConstructionOnlyForKnown ==
    /\ last.op = "construct" =>
          /\ (last.raised = "no") <=> KnownConfiguration(last.arg[1], last.arg[2])
          /\ last.raised = "no" =>
                obj /\ atm_param \in ParamNames
                    /\ location = last.arg[1] /\ season = last.arg[2]
          /\ last.raised # "no" => ~obj /\ atm_param = "None"
    /\ obj => KnownConfiguration(location, season) /\ atm_param \in ParamNames

C9_Witness ==
    /\ last.op = "construct"
    /\ last.arg = <<"SouthPole", NoSeason>>
    /\ last.raised = "TypeError"
    /\ ~obj

(***************************************************************************)
(* C10.  Monotonicity of height2depth.                                     *)
(***************************************************************************)
\* C10: for every supported parameter set and all heights h1 < h2,
\* height2depth(h1) > height2depth(h2).  Stated for two queries of the same
\* object below its top layer boundary, where depths differ by more than
\* the 0.01 g/cm^2 the model resolves.
C10_StrictlyDecreasing ==
    (/\ Len(hq) = 2
     /\ hq[1].p = hq[2].p
     /\ hq[1].h < hq[2].h
     /\ hq[2].h < At(Param(hq[2].p).hlay, 4))
    => hq[1].x > hq[2].x


(***************************************************************************)
(* The cache claims.  In a step of set_theta the unprimed variables are    *)
(* the state before the call and the primed ones the state after it;       *)
(* last' describes the call.                                               *)
(***************************************************************************)
\* the step is a call set_theta(t)
IsSetTheta(t) == last'.op = "set_theta" /\ last'.arg = <<t>>

\* the call gets past the test of line 193 and, with caching on, to the lookup
ReachesLookup(t) == use_atm_cache /\ theta_deg # <<t>>

\* the angles stored for the object's key in a readable cache file
HasDict(f, key) ==
    f.status = "ok" /\ key \in DOMAIN f.data /\ f.data[key].shape = "dict"

StoredAngles(f, key) == IF HasDict(f, key) THEN DOMAIN f.data[key].items ELSE {}

\* every value stored for the key is a pair, and there is at least one
WellFormed(f, key) ==
    /\ HasDict(f, key)
    /\ StoredAngles(f, key) # {}
    /\ \A a \in StoredAngles(f, key) : Len(f.data[key].items[a]) = 2

Nearest(f, key, t) ==
    {a \in StoredAngles(f, key) :
        \A b \in StoredAngles(f, key) : Abs(a - t) <= Abs(b - t)}

\* the object holds exactly the pair the file f stores for the key at angle a
HoldsStored(f, key, a) ==
    /\ X_surf' = f.data[key].items[a][1]
    /\ s_X2rho' = f.data[key].items[a][2]

\* C1: a set_theta(t) that directly follows a set_theta(t) calls the builder
\* zero times and leaves theta_deg, thrad, X_surf and s_X2rho as the first
\* call left them; and a set_theta(t) made while theta_deg equals t returns
\* without loading the cache file.
C1_SecondCallIdempotent ==
    [][\A t \in Angles :
          /\ (IsSetTheta(t) /\ last.op = "set_theta" /\ last.arg = <<t>>) =>
                /\ last'.builds = << >>
                /\ theta_deg' = theta_deg
                /\ thrad' = thrad
                /\ X_surf' = X_surf
                /\ s_X2rho' = s_X2rho
          /\ (IsSetTheta(t) /\ theta_deg = <<t>>) =>
                /\ ~last'.loaded
                /\ last'.builds = << >>
                /\ last'.raised = "no"
                /\ store' = store]_vars

\* a repeated call that found the angle active, after a first call that built it
C1_Witness ==
    /\ last.op = "set_theta"
    /\ last.rep
    /\ last.path = "previous"
    /\ theta_deg = last.arg
    /\ X_surf # None

\* C2: with caching on, when the file holds for the object's key a pair at
\* angle A, A is the stored angle nearest to t and |A - t| < 1 degree, a
\* set_theta(t) that reaches the lookup builds nothing, holds exactly the
\* pair stored for A, and has theta_deg = A, not t.
C2_CacheSnapping ==
    [][\A t \in Angles, A \in Angles :
          (/\ IsSetTheta(t)
           /\ ReachesLookup(t)
           /\ HasDict(store, Key)
           /\ Nearest(store, Key, t) = {A}
           /\ Len(store.data[Key].items[A]) = 2
           /\ Abs(A - t) < Tol)
          => /\ last'.builds = << >>
             /\ last'.raised = "no"
             /\ theta_deg' = <<A>>
             /\ thrad' = <<theta_rad(A)>>
             /\ HoldsStored(store, Key, A)]_vars

\* the angle served is the stored one, half a degree from the requested one
C2_Witness ==
    /\ last.op = "set_theta"
    /\ last.path = "snap"
    /\ last.raised = "no"
    /\ theta_deg # last.arg
    /\ Abs(theta_deg[1] - last.arg[1]) = 1
    /\ HasDict(store, Key)
    /\ X_surf = store.data[Key].items[theta_deg[1]][1]

\* no angle stored for the key is within tolerance of t (no file and no
\* entry included)
NoMatch(f, key, t) ==
    \/ f.status \in {"missing", "unreadable"}
    \/ f.status = "ok" /\ key \notin DOMAIN f.data
    \/ HasDict(f, key) /\ \A a \in StoredAngles(f, key) : Abs(a - t) >= Tol

\* C3: with caching on and no stored angle within tolerance of t, a
\* set_theta(t) that reaches the lookup and returns normally has called the
\* builder exactly once, with t, has theta_deg = t, and the file then holds
\* under the key and t exactly the pair that is active.
C3_MissBuildsOnce ==
    [][\A t \in Angles :
          (/\ IsSetTheta(t)
           /\ ReachesLookup(t)
           /\ NoMatch(store, Key, t)
           /\ last'.raised = "no")
          => /\ last'.builds = <<t>>
             /\ theta_deg' = <<t>>
             /\ HasDict(store', Key)
             /\ t \in StoredAngles(store', Key)
             /\ HoldsStored(store', Key, t)]_vars

\* C4 as claimed: with caching on and a well-formed entry, the builder is
\* called only when no stored angle lies within 1.0 degree of t, and whenever
\* the nearest stored angle A has |A - t| <= 1.0 (1.0 included) the pair
\* stored for A is served and nothing is built.
C4_ToleranceInclusive ==
    [][\A t \in Angles :
          (IsSetTheta(t) /\ ReachesLookup(t) /\ WellFormed(store, Key))
          => /\ last'.builds # << >> =>
                   \A a \in StoredAngles(store, Key) : Abs(a - t) > Tol
             /\ \A A \in Nearest(store, Key, t) :
                   Abs(A - t) <= Tol =>
                      /\ last'.builds = << >>
                      /\ theta_deg'[1] \in Nearest(store, Key, t)
                      /\ HoldsStored(store, Key, theta_deg'[1])]_vars

\* C4 as amended: the window is open.  The builder is called exactly when no
\* stored angle lies less than 1.0 degree from t; a nearest stored angle
\* with |A - t| < 1.0 is served and nothing is built; at exactly 1.0 the
\* profile is built.
C4_ToleranceStrict ==
    [][\A t \in Angles :
          (IsSetTheta(t) /\ ReachesLookup(t) /\ WellFormed(store, Key))
          => /\ last'.builds # << >> <=>
                   \A a \in StoredAngles(store, Key) : Abs(a - t) >= Tol
             /\ \A A \in Nearest(store, Key, t) :
                   Abs(A - t) < Tol =>
                      /\ last'.builds = << >>
                      /\ last'.raised = "no"
                      /\ theta_deg'[1] \in Nearest(store, Key, t)
                      /\ HoldsStored(store, Key, theta_deg'[1])]_vars

\* a profile was built and stored although an angle exactly 1.0 degree away
\* was stored
C4_Witness ==
    /\ last.op = "set_theta"
    /\ last.path = "miss"
    /\ last.raised = "no"
    /\ last.builds = last.arg
    /\ HasDict(store, Key)
    /\ \E a \in StoredAngles(store, Key) : Abs(a - last.arg[1]) = Tol
    /\ last.arg[1] \in StoredAngles(store, Key)

\* C5: from an empty or missing cache file, under no key do two distinct
\* stored angles differ by less than 1 degree.
C5_NoNearDuplicates ==
    store.status = "ok" =>
       \A k \in DOMAIN store.data :
          \A a \in DOMAIN store.data[k].items, b \in DOMAIN store.data[k].items :
             a # b => Abs(a - b) >= Tol

\* two angles are stored under one key, exactly 1 degree apart
C5_Witness ==
    /\ store.status = "ok"
    /\ \E k \in DOMAIN store.data :
          \E a \in DOMAIN store.data[k].items, b \in DOMAIN store.data[k].items :
             a # b /\ Abs(a - b) = Tol

\* the file cannot be loaded, or the key's entry is missing or is no dict
LoadFault(f, key) ==
    \/ f.status \in {"missing", "unreadable", "corrupt"}
    \/ f.status = "ok" /\ key \notin DOMAIN f.data
    \/ f.status = "ok" /\ key \in DOMAIN f.data /\ f.data[key].shape # "dict"

LoadErrors == {"UnpicklingError", "AttributeError", "ValueError"}

\* C6: with caching on, when the file is missing, unreadable or corrupted,
\* or the key's entry is missing or misshapen, set_theta(t) treats the
\* cache as empty, builds the profile for t, and does not raise because of
\* the load or lookup failure.
C6_LoadFailureNotSurfaced ==
    [][\A t \in Angles :
          (IsSetTheta(t) /\ ReachesLookup(t) /\ LoadFault(store, Key))
          => /\ last'.raised \notin LoadErrors
             /\ last'.builds # << >>
             /\ Head(last'.builds) = t
             /\ theta_deg' = <<t>>]_vars

\* C7: a set_theta in which a call of _dump_cache failed raises IOError.
C7_WriteFailureSurfaced ==
    (last.op = "set_theta" /\ \E i \in DOMAIN last.dumps : last.dumps[i] = "fail")
    => last.raised = "IOError"

\* C8: every profile stored in the file before a set_theta is stored under
\* the same key and angle, unchanged, after it.
C8_StoredProfilesKept ==
    [][\A t \in Angles :
          (IsSetTheta(t) /\ store.status = "ok")
          => \A k \in DOMAIN store.data :
                \A a \in DOMAIN store.data[k].items :
                   Len(store.data[k].items[a]) = 2 =>
                      /\ HasDict(store', k)
                      /\ a \in StoredAngles(store', k)
                      /\ store'.data[k].items[a] = store.data[k].items[a]]_vars

(***************************************************************************)
(* C11.  The first set_theta after a successful init_parameters.           *)
(***************************************************************************)
\* the object holds the profile of the density model in force at angle a
HoldsBuilt(a) ==
    /\ <<X_surf', s_X2rho'>> = StoredProfile(DensityModel', a)
    /\ thrad' = <<theta_rad(a)>>

\* C11: when no set_theta was made since the last successful
\* init_parameters (of either class, the one run by the constructor
\* included), the active angle is None and a set_theta(t), for every t,
\* does not take the short-circuit of line 193; when it returns normally
\* the object holds either the profile built in this call from the
\* parameters in force, at angle t, or, nothing being built, the pair the
\* file stored under the key of the new identity at the angle that is now
\* active.
C11_FreshProfileAfterInit ==
    [][\A t \in Angles :
          (IsSetTheta(t) /\ last.fresh)
          => /\ theta_deg = None
             /\ last'.path # "previous"
             /\ last'.raised = "no" =>
                   \/ /\ last'.builds # << >>
                      /\ last'.builds[Len(last'.builds)] = t
                      /\ theta_deg' = <<t>>
                      /\ HoldsBuilt(t)
                   \/ /\ last'.builds = << >>
                      /\ HasDict(store, Key)
                      /\ theta_deg' # None
                      /\ theta_deg'[1] \in StoredAngles(store, Key)
                      /\ HoldsStored(store, Key, theta_deg'[1])]_vars

\* the first set_theta after a re-initialisation of a MSIS00Atmosphere asked
\* for the angle that was active before it, and built the profile anew
C11_Witness ==
    /\ last.op = "set_theta"
    /\ last.first = "same"
    /\ last.raised = "no"
    /\ last.builds = last.arg
    /\ theta_deg = last.arg
    /\ cls = MsisClassName
    /\ <<location, season>> = <<"Karlsruhe", "January">>
    /\ X_surf = StoredProfile(DensityModel, theta_deg[1])[1]

(***************************************************************************)
(* C12.  Layer selection of corsika_get_density_jit and of height2depth.   *)
(***************************************************************************)
\* C12: for every density query, on a parameter table or on any strictly
\* increasing row of boundaries, at a height at or below the first
\* boundary (negative ones included), on a boundary, between boundaries or
\* above the top one, the layer the loop of corsika_get_density_jit
\* selected is the layer the if/elif chain of height2depth takes for the
\* same boundaries and height; and a height on a boundary is in the layer
\* below that boundary.
C12_LayerAgreement ==
    dq # None =>
       /\ dq.layer = height2depth_layer(dq.hl, dq.h)
       /\ \A i \in 1..4 : dq.h = At(dq.hl, i) => dq.layer = i - 1
       /\ dq.h <= At(dq.hl, 0) => dq.layer = 0

\* the density of the US standard atmosphere was asked exactly on the
\* boundary between the layers 1 and 2, and layer 1 was selected
C12_Witness ==
    /\ dq # None
    /\ last.op = "get_density"
    /\ atm_param = "USStd"
    /\ dq.h = At(dq.hl, 2)
    /\ dq.layer = 1
    /\ height2depth_layer(Param(atm_param).hlay, dq.h) = 1

(***************************************************************************)
(* C13.  Consistency of the active state.                                  *)
(***************************************************************************)
\* C13: in every state, after calls that raised included, when theta_deg
\* is not None the object holds as (X_surf, s_X2rho) the profile of its
\* current location and season at the angle theta_deg, and thrad is the
\* radian value of theta_deg; so a set_theta that short-circuits serves
\* that profile.
C13_ActiveStateConsistent ==
    (obj /\ theta_deg # None)
    => /\ thrad = <<theta_rad(theta_deg[1])>>
       /\ <<X_surf, s_X2rho>> = StoredProfile(DensityModel, theta_deg[1])

====
